---- MODULE Spec2Model ----
(***************************************************************************)
(* Model of ClassVote (src/evaluation_system.py): a Streamlit page backed  *)
(* by one SQLite file.  Every browser session runs the script main() in    *)
(* its own thread and opens its own connection, so the steps of two runs   *)
(* interleave at every statement.  sqlite3 (default isolation level) opens *)
(* a transaction before the first INSERT/DELETE of a connection and keeps  *)
(* it open until commit(); SELECTs outside a transaction read the last     *)
(* committed database.  SQLite allows one write transaction at a time: a   *)
(* second writer waits for the first (busy timeout assumed not to expire). *)
(***************************************************************************)
EXTENDS Integers, FiniteSets, Sequences, TLC

\* ---------------------------------------------------------------- bounds
\* Size of the imported roster (rows of members.xlsx).
NumStudents == 4
\* Ballot size required by the submit handlers (10 in the source, scaled).
K == 2
\* Number of script runs started after the logins (submissions, resets,
\* computations, logouts).
MaxOps == 3
\* Largest roster the result computation is tried on by itself.
MaxRoster == 4

\* ------------------------------------------------------------- directory
Admin == 0
Students == 1..NumStudents
\* The browser sessions: two, the least that can race.
Sessions == {"a", "b"}
\* Values the self-assessment number_input (0..100, step 1) is tried with.
ScoreInputs == {80, 90}

\* The four hard-coded officer ids; two of them are rows of the roster.
OFFICER_IDS == {1, 2, 98, 99}

\* The users table after init_db: the admin row plus one 'student' row per
\* roster line.
users == [u \in {Admin} \cup Students |-> IF u = Admin THEN "admin" ELSE "student"]

\* The accounts the sessions log in with: the admin, an officer, a student.
LoginIds == {Admin, 1, 3}

NoSession == "nobody"
NoUser == [uid |-> -1, role |-> "none"]
NoTxn == [self_evals |-> {}, peer_votes |-> {}, officer_votes |-> {}, open |-> FALSE]
NoFrame == [students |-> <<>>, self_df |-> {}, votes_df |-> {}, officer_votes_df |-> {}]
NoResult == <<>>
NoArg == [kind |-> "none", score |-> 0, selected |-> {}, cycle |-> 0]

VARIABLES
    roster,         \* the student rows of users in the order a table scan returns them
    self_evals,     \* committed table self_evals: set of <<uid, score>>
    peer_votes,     \* committed table peer_votes: set of <<voter_uid, candidate_uid>>
    officer_votes,  \* committed table officer_votes: set of <<voter_uid, candidate_uid>>
    lock,           \* the session whose connection holds the write transaction
    txn,            \* the tables as that connection sees them (uncommitted)
    user,           \* st.session_state['user'] of every session
    pc,             \* where the script run of every session stands
    arg,            \* the widget value the run carries (score or selected ids)
    outcome,        \* how the last run of every session ended
    frame,          \* calculate_results: the data frames read so far
    result,         \* calculate_results: the ranked frame returned last
    seen,           \* history: the committed states that existed during the running call
    accepted,       \* history: ballot sets committed per <<voter, channel>> since the last reset
    cycle,          \* history: resets committed so far
    ops             \* script runs started after the logins so far

vars == <<roster, self_evals, peer_votes, officer_votes, lock, txn, user, pc, arg,
          outcome, frame, result, seen, accepted, cycle, ops>>

db == <<self_evals, peer_votes, officer_votes>>
calc == <<frame, result, seen>>

\* ------------------------------------------------------------ SQL helpers
\* SELECT count(*) FROM <votes> WHERE voter_uid = v
VoterCount(votes, v) == Cardinality({e \in votes : e[1] = v})

\* SELECT candidate_uid as uid, COUNT(*) FROM <votes> GROUP BY candidate_uid
VoteCounts(votes) ==
    {<<c, Cardinality({e \in votes : e[2] = c})>> : c \in {e[2] : e \in votes}}

\* SELECT count(DISTINCT voter_uid) FROM <votes>
DistinctVoters(votes) == Cardinality({e[1] : e \in votes})

\* Mutant: the peer candidate query without "AND uid != ?".
PeerOptionsWithSelf(v) == {u \in DOMAIN users : users[u] # "admin"}

\* SELECT uid FROM users WHERE role != 'admin' AND uid != v
PeerOptions(v) == {u \in DOMAIN users : users[u] # "admin" /\ u # v}

\* Mutant: the officer candidate query without "WHERE role != 'admin'".
OfficerOptionsAll == DOMAIN users

\* SELECT uid FROM users WHERE role != 'admin'
OfficerOptions == {u \in DOMAIN users : users[u] # "admin"}

\* SELECT uid FROM users WHERE role = 'student' OR role = 'officer'
EligibleStudents == {u \in DOMAIN users : users[u] = "student" \/ users[u] = "officer"}

\* The role the login form stores in the session.
SessionRole(uid) == IF uid \in OFFICER_IDS THEN "officer" ELSE users[uid]

\* The eligible rows in the order init_db inserted them, here by ascending id.
ImportedRoster ==
    [i \in 1..Cardinality(EligibleStudents) |->
        CHOOSE u \in EligibleStudents :
            Cardinality({w \in EligibleStudents : w < u}) = i - 1]

\* Mutant: a database without the single-writer lock.
NoWriteLock(holder) == TRUE

\* SQLite lets a connection begin a write transaction only while no other
\* connection holds one.
NoOtherWriter(holder) == holder = NoSession

Init ==
    /\ roster = ImportedRoster
    /\ self_evals = {}
    /\ peer_votes = {}
    /\ officer_votes = {}
    /\ lock = NoSession
    /\ txn = NoTxn
    /\ user = [s \in Sessions |-> NoUser]
    /\ pc = [s \in Sessions |-> "login"]
    /\ arg = [s \in Sessions |-> NoArg]
    /\ outcome = [s \in Sessions |-> "none"]
    /\ frame = [s \in Sessions |-> NoFrame]
    /\ result = [s \in Sessions |-> NoResult]
    /\ seen = [s \in Sessions |-> {}]
    /\ accepted = [p \in Students \X {"peer", "officer"} |-> 0]
    /\ cycle = 0
    /\ ops = 0

\* What the multiselect widgets and the submit buttons are tried with: any
\* set of ids of at most K + 1 elements.
Selections == {S \in SUBSET (DOMAIN users) : Cardinality(S) <= K + 1}

\* The committed tables as the aggregation reads them.
Snapshot(se, pv, ov) ==
    [self_df |-> se, votes_df |-> VoteCounts(pv), officer_votes_df |-> VoteCounts(ov)]

InCalc(t) == pc[t] \in {"calc_self", "calc_peer", "calc_officer"}

\* History: every running calculate_results call records the state a commit
\* has just produced.
Observe(se, pv, ov) ==
    seen' = [t \in Sessions |->
                IF InCalc(t) THEN seen[t] \cup {Snapshot(se, pv, ov)} ELSE seen[t]]

\* Mutant: a connection in autocommit mode (isolation_level=None).
Autocommit(committed, uncommitted) == uncommitted

\* What the connections other than the writer read while its transaction is
\* open: the committed rows (sqlite3 commits nothing before conn.commit()).
OtherConnectionsSee(committed, uncommitted) == committed

\* Mutant: self_evals without its primary key.
NoSelfKey(table, uid) == {}

\* uid is PRIMARY KEY of self_evals: the rows an INSERT of uid collides with.
SelfConflict(table, uid) == {r \in table : r[1] = uid}

\* Mutant: the vote tables without their primary key.
NoConflicts(votes, v, selected) == {}

\* (voter_uid, candidate_uid) is PRIMARY KEY of both vote tables: the
\* selected ids whose row is already there.
Conflicts(votes, v, selected) == {c \in selected : <<v, c>> \in votes}

\* data = [(user['uid'], tid) for tid in selected]
Rows(v, selected) == {<<v, c>> : c \in selected}

\* Mutant: the length test only refuses more than K ids.
AtMostK(selected) == Cardinality(selected) <= K

\* if len(selected) != 10 (the ballot size, scaled to K)
CardinalityOk(selected) == Cardinality(selected) = K

\* Mutant: the officer tab shown to every voter.
AnyoneMayOfficerVote(role) == TRUE

\* if user['role'] == 'officer': the officer tab exists.
MayOfficerVote(role) == role = "officer"

\* if user['role'] in ['student', 'officer']: the voter page.
IsVoter(role) == role \in {"student", "officer"}

\* What a multiselect over `options` refuses to hold: an id that is not an
\* option (the voter's own id on the peer tab, the admin, an unknown id).
WidgetRefusal(v, selected, options) ==
    IF selected \subseteq options THEN "none"
    ELSE IF v \in selected /\ v \notin options THEN "SelfVoteForbidden"
    ELSE "UnknownOrIneligibleCandidate"

\* Tab 2 up to the INSERT: the duplicate test, the widget, the length test.
PeerVerdict(u, votes, selected) ==
    IF VoterCount(votes, u.uid) > 0 THEN "DuplicateSubmission"
    ELSE IF WidgetRefusal(u.uid, selected, PeerOptions(u.uid)) # "none"
    THEN WidgetRefusal(u.uid, selected, PeerOptions(u.uid))
    ELSE IF ~CardinalityOk(selected) THEN "WrongCardinality"
    ELSE "pass"

\* Tab 3 up to the INSERT: the role test, the duplicate test, the widget,
\* the length test.
OfficerVerdict(u, votes, selected) ==
    IF ~(IsVoter(u.role) /\ MayOfficerVote(u.role)) THEN "Unauthorized"
    ELSE IF VoterCount(votes, u.uid) > 0 THEN "DuplicateSubmission"
    ELSE IF WidgetRefusal(u.uid, selected, OfficerOptions) # "none"
    THEN WidgetRefusal(u.uid, selected, OfficerOptions)
    ELSE IF ~CardinalityOk(selected) THEN "WrongCardinality"
    ELSE "pass"

Finish(s, how) ==
    /\ pc' = [pc EXCEPT ![s] = "idle"]
    /\ outcome' = [outcome EXCEPT ![s] = how]

\* Login form: a row of users matched the credentials.
Login(s, uid) ==
    /\ pc[s] = "login"
    /\ uid \in DOMAIN users
    /\ user' = [user EXCEPT ![s] = [uid |-> uid, role |-> SessionRole(uid)]]
    /\ pc' = [pc EXCEPT ![s] = "idle"]
    /\ UNCHANGED <<roster, db, lock, txn, arg, outcome, calc, accepted, cycle, ops>>

\* Sidebar button: del st.session_state['user'].
Logout(s) ==
    /\ pc[s] = "idle"
    /\ ops < MaxOps
    /\ ops' = ops + 1
    /\ user' = [user EXCEPT ![s] = NoUser]
    /\ pc' = [pc EXCEPT ![s] = "login"]
    /\ arg' = [arg EXCEPT ![s] = NoArg]
    /\ outcome' = [outcome EXCEPT ![s] = "none"]
    /\ UNCHANGED <<roster, db, lock, txn, calc, accepted, cycle>>

\* ------------------------------------------------------- self-assessment
\* Tab 1, a run with the form submitted: SELECT score ... WHERE uid = ?
SelfCheck(s, score) ==
    /\ pc[s] = "idle"
    /\ IsVoter(user[s].role)
    /\ ops < MaxOps
    /\ ops' = ops + 1
    /\ IF \E r \in self_evals : r[1] = user[s].uid
       THEN /\ Finish(s, "AlreadySubmitted")
            /\ arg' = [arg EXCEPT ![s] = NoArg]
       ELSE /\ pc' = [pc EXCEPT ![s] = "self_insert"]
            /\ arg' = [arg EXCEPT ![s] = [kind |-> "self", score |-> score,
                                         selected |-> {}, cycle |-> cycle]]
            /\ outcome' = [outcome EXCEPT ![s] = "running"]
    /\ UNCHANGED <<roster, db, lock, txn, user, calc, accepted, cycle>>

\* cur.execute("INSERT INTO self_evals VALUES (?, ?)", (uid, score))
SelfInsert(s) ==
    /\ pc[s] = "self_insert"
    /\ NoOtherWriter(lock)
    /\ lock' = s
    /\ IF SelfConflict(self_evals, user[s].uid) # {}
       THEN /\ txn' = [self_evals |-> self_evals, peer_votes |-> peer_votes,
                       officer_votes |-> officer_votes, open |-> TRUE]
            /\ pc' = [pc EXCEPT ![s] = "failed"]
       ELSE /\ txn' = [self_evals |-> self_evals \cup {<<user[s].uid, arg[s].score>>},
                       peer_votes |-> peer_votes,
                       officer_votes |-> officer_votes, open |-> TRUE]
            /\ pc' = [pc EXCEPT ![s] = "self_commit"]
    /\ UNCHANGED <<roster, db, user, arg, outcome, calc, accepted, ops, cycle>>

\* conn.commit() of the self-assessment run
SelfCommit(s) ==
    /\ pc[s] = "self_commit"
    /\ lock = s
    /\ self_evals' = txn.self_evals
    /\ peer_votes' = txn.peer_votes
    /\ officer_votes' = txn.officer_votes
    /\ lock' = NoSession
    /\ txn' = NoTxn
    /\ Finish(s, "Accepted")
    /\ Observe(txn.self_evals, txn.peer_votes, txn.officer_votes)
    /\ UNCHANGED <<roster, user, arg, frame, result, accepted, ops, cycle>>

\* An IntegrityError left main(): the connection is dropped with its
\* transaction open, which rolls the transaction back.
Dealloc(s) ==
    /\ pc[s] = "failed"
    /\ lock = s
    /\ lock' = NoSession
    /\ txn' = NoTxn
    /\ Finish(s, "IntegrityError")
    /\ UNCHANGED <<roster, db, user, arg, calc, accepted, ops, cycle>>

\* ------------------------------------------------------------ peer ballot
\* Tab 2, a run with the submit button pressed, up to the INSERT.
PeerCheck(s, selected) ==
    /\ pc[s] = "idle"
    /\ IsVoter(user[s].role)
    /\ ops < MaxOps
    /\ ops' = ops + 1
    /\ LET verdict == PeerVerdict(user[s], peer_votes, selected)
       IN  IF verdict # "pass"
           THEN Finish(s, verdict) /\ arg' = [arg EXCEPT ![s] = NoArg]
           ELSE /\ pc' = [pc EXCEPT ![s] = "peer_insert"]
                /\ arg' = [arg EXCEPT ![s] = [kind |-> "peer", score |-> 0,
                                             selected |-> selected, cycle |-> cycle]]
                /\ outcome' = [outcome EXCEPT ![s] = "running"]
    /\ UNCHANGED <<roster, db, lock, txn, user, calc, accepted, cycle>>

\* cur.executemany("INSERT INTO peer_votes VALUES (?, ?)", data): the rows go
\* in one by one until one violates the primary key.
PeerInsert(s) ==
    /\ pc[s] = "peer_insert"
    /\ NoOtherWriter(lock)
    /\ lock' = s
    /\ LET v == user[s].uid
           clash == Conflicts(peer_votes, v, arg[s].selected)
       IN  IF clash = {}
           THEN /\ txn' = [self_evals |-> self_evals,
                           peer_votes |-> peer_votes \cup Rows(v, arg[s].selected),
                           officer_votes |-> officer_votes, open |-> TRUE]
                /\ pc' = [pc EXCEPT ![s] = "peer_commit"]
           ELSE /\ \E before \in SUBSET (arg[s].selected \ clash) :
                      txn' = [self_evals |-> self_evals,
                              peer_votes |-> peer_votes \cup Rows(v, before),
                              officer_votes |-> officer_votes, open |-> TRUE]
                /\ pc' = [pc EXCEPT ![s] = "failed"]
    /\ UNCHANGED <<roster, db, user, arg, outcome, calc, accepted, ops, cycle>>

\* conn.commit() of the peer ballot run
PeerCommit(s) ==
    /\ pc[s] = "peer_commit"
    /\ lock = s
    /\ self_evals' = txn.self_evals
    /\ peer_votes' = txn.peer_votes
    /\ officer_votes' = txn.officer_votes
    /\ lock' = NoSession
    /\ txn' = NoTxn
    /\ Finish(s, "Accepted")
    /\ accepted' = [accepted EXCEPT ![<<user[s].uid, "peer">>] = @ + 1]
    /\ Observe(txn.self_evals, txn.peer_votes, txn.officer_votes)
    /\ UNCHANGED <<roster, user, arg, frame, result, ops, cycle>>

\* --------------------------------------------------------- officer ballot
\* Tab 3, a run with the submit button pressed, up to the INSERT.
OfficerCheck(s, selected) ==
    /\ pc[s] = "idle"
    /\ ops < MaxOps
    /\ ops' = ops + 1
    /\ LET verdict == OfficerVerdict(user[s], officer_votes, selected)
       IN  IF verdict # "pass"
           THEN Finish(s, verdict) /\ arg' = [arg EXCEPT ![s] = NoArg]
           ELSE /\ pc' = [pc EXCEPT ![s] = "officer_insert"]
                /\ arg' = [arg EXCEPT ![s] = [kind |-> "officer", score |-> 0,
                                             selected |-> selected, cycle |-> cycle]]
                /\ outcome' = [outcome EXCEPT ![s] = "running"]
    /\ UNCHANGED <<roster, db, lock, txn, user, calc, accepted, cycle>>

\* cur.executemany("INSERT INTO officer_votes VALUES (?, ?)", data)
OfficerInsert(s) ==
    /\ pc[s] = "officer_insert"
    /\ NoOtherWriter(lock)
    /\ lock' = s
    /\ LET v == user[s].uid
           clash == Conflicts(officer_votes, v, arg[s].selected)
       IN  IF clash = {}
           THEN /\ txn' = [self_evals |-> self_evals,
                           peer_votes |-> peer_votes,
                           officer_votes |-> officer_votes \cup Rows(v, arg[s].selected),
                           open |-> TRUE]
                /\ pc' = [pc EXCEPT ![s] = "officer_commit"]
           ELSE /\ \E before \in SUBSET (arg[s].selected \ clash) :
                      txn' = [self_evals |-> self_evals,
                              peer_votes |-> peer_votes,
                              officer_votes |-> officer_votes \cup Rows(v, before),
                              open |-> TRUE]
                /\ pc' = [pc EXCEPT ![s] = "failed"]
    /\ UNCHANGED <<roster, db, user, arg, outcome, calc, accepted, ops, cycle>>

\* conn.commit() of the officer ballot run
OfficerCommit(s) ==
    /\ pc[s] = "officer_commit"
    /\ lock = s
    /\ self_evals' = txn.self_evals
    /\ peer_votes' = txn.peer_votes
    /\ officer_votes' = txn.officer_votes
    /\ lock' = NoSession
    /\ txn' = NoTxn
    /\ Finish(s, "Accepted")
    /\ accepted' = [accepted EXCEPT ![<<user[s].uid, "officer">>] = @ + 1]
    /\ Observe(txn.self_evals, txn.peer_votes, txn.officer_votes)
    /\ UNCHANGED <<roster, user, arg, frame, result, ops, cycle>>

\* ------------------------------------------------------------------ reset
\* Admin page, "clear all" pressed: conn.execute("DELETE FROM self_evals")
ResetSelf(s) ==
    /\ pc[s] = "idle"
    /\ user[s].role = "admin"
    /\ ops < MaxOps
    /\ ops' = ops + 1
    /\ NoOtherWriter(lock)
    /\ lock' = s
    /\ txn' = [self_evals |-> {}, peer_votes |-> peer_votes,
               officer_votes |-> officer_votes, open |-> TRUE]
    /\ self_evals' = OtherConnectionsSee(self_evals, {})
    /\ pc' = [pc EXCEPT ![s] = "reset_peer"]
    /\ outcome' = [outcome EXCEPT ![s] = "running"]
    /\ arg' = [arg EXCEPT ![s] = NoArg]
    /\ Observe(self_evals', peer_votes, officer_votes)
    /\ UNCHANGED <<roster, peer_votes, officer_votes, user, frame, result, accepted, cycle>>

\* conn.execute("DELETE FROM peer_votes")
ResetPeer(s) ==
    /\ pc[s] = "reset_peer"
    /\ lock = s
    /\ txn' = [txn EXCEPT !.peer_votes = {}]
    /\ peer_votes' = OtherConnectionsSee(peer_votes, {})
    /\ pc' = [pc EXCEPT ![s] = "reset_officer"]
    /\ Observe(self_evals, peer_votes', officer_votes)
    /\ UNCHANGED <<roster, self_evals, officer_votes, lock, user, arg, outcome, frame,
                   result, accepted, ops, cycle>>

\* conn.execute("DELETE FROM officer_votes")
ResetOfficer(s) ==
    /\ pc[s] = "reset_officer"
    /\ lock = s
    /\ txn' = [txn EXCEPT !.officer_votes = {}]
    /\ officer_votes' = OtherConnectionsSee(officer_votes, {})
    /\ pc' = [pc EXCEPT ![s] = "reset_commit"]
    /\ Observe(self_evals, peer_votes, officer_votes')
    /\ UNCHANGED <<roster, self_evals, peer_votes, lock, user, arg, outcome, frame,
                   result, accepted, ops, cycle>>

\* conn.commit() of the reset
ResetCommit(s) ==
    /\ pc[s] = "reset_commit"
    /\ lock = s
    /\ self_evals' = txn.self_evals
    /\ peer_votes' = txn.peer_votes
    /\ officer_votes' = txn.officer_votes
    /\ lock' = NoSession
    /\ txn' = NoTxn
    /\ Finish(s, "Cleared")
    /\ accepted' = [p \in DOMAIN accepted |-> 0]
    /\ cycle' = cycle + 1
    /\ Observe(txn.self_evals, txn.peer_votes, txn.officer_votes)
    /\ UNCHANGED <<roster, user, arg, frame, result, ops>>

\* ------------------------------------------------------ calculate_results
\* Scores are kept in hundredths of a point, the precision of .round(2).
\* The divisor of org_score and the rank up to which a member is excellent.
OrgDivisor == 4
TopRanks == 10

\* students.merge(self_df, how='left').fillna(0).merge(votes_df, ...)
\*         .fillna(0).merge(officer_votes_df, ...).fillna(0)
Lookup(df, uid) == IF \E r \in df : r[1] = uid
                   THEN (CHOOSE r \in df : r[1] = uid)[2]
                   ELSE 0

\* The merged frame: one row per row of students, in the order of students.
Merge(students, self_df, votes_df, officer_votes_df) ==
    [i \in 1..Len(students) |->
        [uid |-> students[i],
         self_score |-> Lookup(self_df, students[i]),
         vote_count |-> Lookup(votes_df, students[i]),
         officer_vote_count |-> Lookup(officer_votes_df, students[i])]]

\* Mutant: the divisor of peer_score fixed to 1.
AlwaysOne(total_students) == 1

\* max_peer_votes = total_students - 1 if total_students > 1 else 1
MaxPeerVotes(total_students) == IF total_students > 1 THEN total_students - 1 ELSE 1

\* Series.round(2) of num / den taken in hundredths: to the nearest, a tie
\* to the even neighbour.
RoundHalfEven(num, den) ==
    LET q == num \div den
        r == num % den
    IN  IF 2 * r < den THEN q
        ELSE IF 2 * r > den THEN q + 1
        ELSE IF q % 2 = 0 THEN q ELSE q + 1

\* peer_score = (vote_count / max_peer_votes * 100).round(2)
PeerScore(vote_count, max_peer_votes) == RoundHalfEven(10000 * vote_count, max_peer_votes)

\* org_score = (officer_vote_count / 4 * 100).round(2)
OrgScore(officer_vote_count) == RoundHalfEven(10000 * officer_vote_count, OrgDivisor)

\* Mutant: the weights of peer_score and org_score exchanged.
FinalScoreSwapped(self_score, vote_count, officer_vote_count, max_peer_votes) ==
    RoundHalfEven(30 * self_score * max_peer_votes * OrgDivisor
                    + 4000 * vote_count * OrgDivisor
                    + 3000 * officer_vote_count * max_peer_votes,
                  max_peer_votes * OrgDivisor)

\* final_score = (self_score * 0.3 + peer_score * 0.3 + org_score * 0.4).round(2),
\* computed from the scores before they are rounded.
FinalScore(self_score, vote_count, officer_vote_count, max_peer_votes) ==
    RoundHalfEven(30 * self_score * max_peer_votes * OrgDivisor
                    + 3000 * vote_count * OrgDivisor
                    + 4000 * officer_vote_count * max_peer_votes,
                  max_peer_votes * OrgDivisor)

\* The frame with its three score columns.
Scored(df) ==
    LET max_peer_votes == MaxPeerVotes(Len(df))
    IN  [i \in 1..Len(df) |->
            [uid |-> df[i].uid,
             self_score |-> df[i].self_score,
             vote_count |-> df[i].vote_count,
             officer_vote_count |-> df[i].officer_vote_count,
             peer_score |-> PeerScore(df[i].vote_count, max_peer_votes),
             org_score |-> OrgScore(df[i].officer_vote_count),
             final_score |-> FinalScore(df[i].self_score, df[i].vote_count,
                                        df[i].officer_vote_count, max_peer_votes)]]

\* by=['final_score', 'org_score', 'vote_count', 'self_score']
SortKey(row) == <<row.final_score, row.org_score, row.vote_count, row.self_score>>

\* Mutant: ascending=[True, True, True, True].
Ascending(a, b) ==
    \E k \in 1..4 : /\ SortKey(a)[k] < SortKey(b)[k]
                    /\ \A j \in 1..(k - 1) : SortKey(a)[j] = SortKey(b)[j]

\* ascending=[False, False, False, False]: row a sorts strictly before row b.
Descending(a, b) ==
    \E k \in 1..4 : /\ SortKey(a)[k] > SortKey(b)[k]
                    /\ \A j \in 1..(k - 1) : SortKey(a)[j] = SortKey(b)[j]

\* df.sort_values on several columns is a stable sort: rows with equal keys
\* keep the order they had in the frame.
InsertRow(row, sorted) ==
    LET ahead == Cardinality({i \in 1..Len(sorted) : Descending(sorted[i], row)})
    IN  SubSeq(sorted, 1, ahead) \o <<row>> \o SubSeq(sorted, ahead + 1, Len(sorted))

RECURSIVE SortValues(_)
SortValues(df) == IF Len(df) <= 1 THEN df
                  ELSE InsertRow(Head(df), SortValues(Tail(df)))

\* Mutant: df['rank'] = range(len(df)).
RankFromZero(position) == position - 1

\* df['rank'] = range(1, len(df) + 1)
RankOf(position) == position

\* "优秀团员" if the rank is at most 10, else "合格团员"
Category(rank) == IF rank <= TopRanks THEN "Excellent" ELSE "Qualified"

Ranked(df) ==
    [i \in 1..Len(df) |->
        [uid |-> df[i].uid,
         self_score |-> df[i].self_score,
         vote_count |-> df[i].vote_count,
         officer_vote_count |-> df[i].officer_vote_count,
         peer_score |-> df[i].peer_score,
         org_score |-> df[i].org_score,
         final_score |-> df[i].final_score,
         rank |-> RankOf(i),
         result |-> Category(RankOf(i))]]

\* The frame calculate_results returns for the four frames it has read.
calculate_results(students, self_df, votes_df, officer_votes_df) ==
    Ranked(SortValues(Scored(Merge(students, self_df, votes_df, officer_votes_df))))

\* Admin page, "compute" pressed: students = pd.read_sql(... FROM users ...)
CalcStudents(s) ==
    /\ pc[s] = "idle"
    /\ user[s].role = "admin"
    /\ ops < MaxOps
    /\ ops' = ops + 1
    /\ frame' = [frame EXCEPT ![s] = [NoFrame EXCEPT !.students = roster]]
    /\ seen' = [seen EXCEPT ![s] = {Snapshot(self_evals, peer_votes, officer_votes)}]
    /\ result' = [result EXCEPT ![s] = NoResult]
    /\ pc' = [pc EXCEPT ![s] = "calc_self"]
    /\ outcome' = [outcome EXCEPT ![s] = "running"]
    /\ arg' = [arg EXCEPT ![s] = NoArg]
    /\ UNCHANGED <<roster, db, lock, txn, user, accepted, cycle>>

\* self_df = pd.read_sql("SELECT uid, score as self_score FROM self_evals")
CalcSelf(s) ==
    /\ pc[s] = "calc_self"
    /\ frame' = [frame EXCEPT ![s].self_df = self_evals]
    /\ pc' = [pc EXCEPT ![s] = "calc_peer"]
    /\ UNCHANGED <<roster, db, lock, txn, user, arg, outcome, result, seen, accepted, ops, cycle>>

\* votes_df = pd.read_sql("... FROM peer_votes GROUP BY candidate_uid")
CalcPeer(s) ==
    /\ pc[s] = "calc_peer"
    /\ frame' = [frame EXCEPT ![s].votes_df = VoteCounts(peer_votes)]
    /\ pc' = [pc EXCEPT ![s] = "calc_officer"]
    /\ UNCHANGED <<roster, db, lock, txn, user, arg, outcome, result, seen, accepted, ops, cycle>>

\* Mutant: the call writes the zeros of fillna(0) back into self_evals.
CalcOfficerStoring(s) ==
    /\ pc[s] = "calc_officer"
    /\ result' = [result EXCEPT ![s] =
                    calculate_results(frame[s].students, frame[s].self_df,
                                      frame[s].votes_df, VoteCounts(officer_votes))]
    /\ self_evals' = self_evals \cup
            {<<frame[s].students[i], 0>> : i \in
                {j \in 1..Len(frame[s].students) :
                    ~\E r \in self_evals : r[1] = frame[s].students[j]}}
    /\ frame' = [frame EXCEPT ![s] = NoFrame]
    /\ seen' = [seen EXCEPT ![s] = {}]
    /\ Finish(s, "Computed")
    /\ UNCHANGED <<roster, peer_votes, officer_votes, lock, txn, user, arg, accepted,
                   ops, cycle>>

\* officer_votes_df = pd.read_sql("... FROM officer_votes GROUP BY
\* candidate_uid"), then the merges, the scores, the sort and the ranks up to
\* the returned frame.
CalcOfficer(s) ==
    /\ pc[s] = "calc_officer"
    /\ result' = [result EXCEPT ![s] =
                    calculate_results(frame[s].students, frame[s].self_df,
                                      frame[s].votes_df, VoteCounts(officer_votes))]
    /\ frame' = [frame EXCEPT ![s] = NoFrame]
    /\ seen' = [seen EXCEPT ![s] = {}]
    /\ Finish(s, "Computed")
    /\ UNCHANGED <<roster, db, lock, txn, user, arg, accepted, ops, cycle>>

Next ==
    \E s \in Sessions :
        \/ \E uid \in LoginIds : Login(s, uid)
        \/ Logout(s)
        \/ \E score \in ScoreInputs : SelfCheck(s, score)
        \/ SelfInsert(s)
        \/ SelfCommit(s)
        \/ Dealloc(s)
        \/ \E selected \in Selections : PeerCheck(s, selected)
        \/ PeerInsert(s)
        \/ PeerCommit(s)
        \/ \E selected \in Selections : OfficerCheck(s, selected)
        \/ OfficerInsert(s)
        \/ OfficerCommit(s)
        \/ ResetSelf(s)
        \/ ResetPeer(s)
        \/ ResetOfficer(s)
        \/ ResetCommit(s)
        \/ CalcStudents(s)
        \/ CalcSelf(s)
        \/ CalcPeer(s)
        \/ CalcOfficer(s)

Spec == Init /\ [][Next]_vars

\* ------------------------------------------- the result computation alone
\* calculate_results tried on rosters of 1..MaxRoster rows, listed by
\* ascending or by descending id, and on the stores that accepted
\* submissions leave: both sessions are logged in as the admin and only
\* press "compute".
RosterOrders ==
    {[i \in 1..n |-> i] : n \in 1..MaxRoster}
        \cup {[i \in 1..n |-> n + 1 - i] : n \in 1..MaxRoster}

Members(r) == {r[i] : i \in 1..Len(r)}

\* The self score member u enters, if it enters one.
SelfScores == <<80, 90, 70>>
ScoreOf(u) == SelfScores[((u - 1) % 3) + 1]

\* The peer ballot of voter v: the K members that follow v on a roster of n.
PeerBallot(v, n) == {<<v, ((v - 1 + j) % n) + 1>> : j \in 1..K}

\* The officer ballot of voter v: the first K members.
OfficerBallot(v) == {<<v, c>> : c \in 1..K}

RankInit ==
    /\ roster \in RosterOrders
    /\ \E scored \in SUBSET Members(roster) :
            self_evals = {<<u, ScoreOf(u)>> : u \in scored}
    /\ \E voters \in SUBSET Members(roster) :
            /\ voters # {} => Len(roster) - 1 >= K
            /\ peer_votes = UNION {PeerBallot(v, Len(roster)) : v \in voters}
            /\ \E officers \in SUBSET (Members(roster) \cap OFFICER_IDS) :
                    /\ officers # {} => Len(roster) >= K
                    /\ officer_votes = UNION {OfficerBallot(v) : v \in officers}
                    /\ accepted = [p \in Students \X {"peer", "officer"} |->
                                    IF \/ p[2] = "peer" /\ p[1] \in voters
                                       \/ p[2] = "officer" /\ p[1] \in officers
                                    THEN 1 ELSE 0]
    /\ lock = NoSession
    /\ txn = NoTxn
    /\ user = [s \in Sessions |-> [uid |-> Admin, role |-> "admin"]]
    /\ pc = [s \in Sessions |-> "idle"]
    /\ arg = [s \in Sessions |-> NoArg]
    /\ outcome = [s \in Sessions |-> "none"]
    /\ frame = [s \in Sessions |-> NoFrame]
    /\ result = [s \in Sessions |-> NoResult]
    /\ seen = [s \in Sessions |-> {}]
    /\ cycle = 0
    /\ ops = 0

RankNext ==
    \E s \in Sessions :
        \/ CalcStudents(s)
        \/ CalcSelf(s)
        \/ CalcPeer(s)
        \/ CalcOfficer(s)

RankSpec == RankInit /\ [][RankNext]_vars

\* ================================================================= claims
Channels == {"peer", "officer"}
Edges(ch) == IF ch = "peer" THEN peer_votes ELSE officer_votes

\* sum of vote_count over the rows of a GROUP BY frame
RECURSIVE SumCounts(_)
SumCounts(df) == IF df = {} THEN 0
                 ELSE LET r == CHOOSE x \in df : TRUE
                      IN  r[2] + SumCounts(df \ {r})

\* The verdicts with which a ballot submission is turned down at its checks.
Refusals == {"Unauthorized", "DuplicateSubmission", "WrongCardinality",
             "SelfVoteForbidden", "UnknownOrIneligibleCandidate"}

\* A step that ends a script run at its checks and leaves session s, idle
\* before and after, with a refusal.
RefusedStep(s) ==
    /\ pc[s] = "idle" /\ ops' = ops + 1 /\ outcome'[s] \in Refusals
    /\ pc' = pc /\ user' = user
ResetInProgress == \E s \in Sessions : pc[s] \in {"reset_peer", "reset_officer", "reset_commit"}
Ended(s) == pc[s] = "idle" /\ outcome[s] \in {"Accepted", "IntegrityError"}

\* C1: every (voter, channel) pair has either no persisted edge or exactly K
\* of them, under any interleaving of submissions.
C1_ZeroOrK ==
    \A v \in Students : \A ch \in Channels : VoterCount(Edges(ch), v) \in {0, K}

\* C2: two concurrent callers of one voter submit the same K-set on the peer
\* channel and both pass the existence check of the same cycle: once both
\* have ended, exactly one was accepted, the other was turned down on the
\* duplicate key, and the voter has exactly K peer edges.
C2_DoubleSubmit ==
    \A s, t \in Sessions :
        (/\ s # t
         /\ user[s].uid = user[t].uid
         /\ arg[s].kind = "peer" /\ arg[t] = arg[s]
         /\ arg[s].cycle = cycle
         /\ Ended(s) /\ Ended(t))
        => /\ {outcome[s], outcome[t]} = {"Accepted", "IntegrityError"}
           /\ VoterCount(peer_votes, user[s].uid) = K
           /\ accepted[<<user[s].uid, "peer">>] = 1

C2_Witness ==
    \E s, t \in Sessions :
        /\ s # t
        /\ user[s].uid = user[t].uid
        /\ arg[s].kind = "peer" /\ arg[t] = arg[s] /\ arg[s].cycle = cycle
        /\ Ended(s) /\ Ended(t)
        /\ outcome[t] = "IntegrityError"

\* C3: a (voter, channel) pair has at most one accepted ballot set per cycle.
C3_AtMostOneAccepted ==
    \A p \in DOMAIN accepted : accepted[p] <= 1

\* C4: every officer-channel edge was cast by a voter whose role is officer,
\* and an officer-channel submission by any other role ends Unauthorized,
\* whatever was selected, and changes neither the tables nor a transaction.
C4_OfficerOnly ==
    /\ [](\A e \in officer_votes : SessionRole(e[1]) = "officer")
    /\ [](\A s \in Sessions : \A selected \in Selections :
            (pc[s] = "idle" /\ user[s].role # "officer")
            => OfficerVerdict(user[s], officer_votes, selected) = "Unauthorized")
    /\ [][\A s \in Sessions :
            (RefusedStep(s) /\ outcome'[s] = "Unauthorized")
            => UNCHANGED <<db, lock, txn>>]_vars

C4_Witness ==
    /\ officer_votes # {}
    /\ \E s \in Sessions : user[s].role = "student" /\ outcome[s] = "Unauthorized"

\* C5: no peer edge points at its own voter, every peer candidate is a
\* directory row that is not the administrator, and a peer submission whose
\* selection holds the voter's own id is turned down and leaves the number
\* of completed peer voters (and the tables) as they were.
C5_NoSelfVote ==
    /\ [](\A e \in peer_votes :
            e[2] # e[1] /\ e[2] \in DOMAIN users /\ users[e[2]] # "admin")
    /\ [](\A s \in Sessions : \A selected \in Selections :
            (pc[s] = "idle" /\ IsVoter(user[s].role) /\ user[s].uid \in selected)
            => PeerVerdict(user[s], peer_votes, selected)
                   \in {"SelfVoteForbidden", "DuplicateSubmission"})
    /\ [][\A s \in Sessions :
            (RefusedStep(s) /\ outcome'[s] \in {"SelfVoteForbidden", "DuplicateSubmission"})
            => /\ DistinctVoters(peer_votes') = DistinctVoters(peer_votes)
               /\ UNCHANGED <<db, lock, txn>>]_vars

C5_Witness ==
    /\ peer_votes # {}
    /\ \E s \in Sessions : outcome[s] = "SelfVoteForbidden"

\* The step in which a submission of session s is turned down: at its
\* checks, at the INSERT that violates a key, or when its connection goes.
RejectStep(s) ==
    \/ RefusedStep(s)
    \/ pc[s] \in {"peer_insert", "officer_insert"} /\ pc'[s] = "failed"
    \/ pc[s] = "failed" /\ pc'[s] = "idle" /\ arg[s].kind \in Channels

NothingPersisted(s) == UNCHANGED db /\ (lock' = s => pc'[s] = "failed")

\* The submission gets as far as the length test of the submit button.
ReachesLengthTest(s, ch, selected) ==
    /\ IsVoter(user[s].role)
    /\ ch = "officer" => user[s].role = "officer"
    /\ VoterCount(Edges(ch), user[s].uid) = 0
    /\ selected \subseteq (IF ch = "peer" THEN PeerOptions(user[s].uid) ELSE OfficerOptions)

\* C6 as stated: every submission whose selection has not exactly K ids ends
\* WrongCardinality, and every submission that is turned down leaves the
\* three tables as they were.
C6_Original ==
    /\ [][\A s \in Sessions : \A selected \in Selections :
            (Cardinality(selected) # K
             /\ (PeerCheck(s, selected) \/ OfficerCheck(s, selected)))
            => outcome'[s] = "WrongCardinality"]_vars
    /\ [][\A s \in Sessions : RejectStep(s) => NothingPersisted(s)]_vars

\* C6 amended: a submission that gets as far as the length test (authorized
\* voter, no ballot set of the pair yet, every id one of the offered options)
\* and whose selection has not exactly K ids ends WrongCardinality; every
\* submission that is turned down, whatever the reason, leaves the three
\* tables as they were and no transaction that could still commit.
C6_Rejections ==
    /\ [](\A s \in Sessions : \A selected \in Selections :
            (pc[s] = "idle" /\ Cardinality(selected) # K)
            => /\ ReachesLengthTest(s, "peer", selected)
                  => PeerVerdict(user[s], peer_votes, selected) = "WrongCardinality"
               /\ ReachesLengthTest(s, "officer", selected)
                  => OfficerVerdict(user[s], officer_votes, selected) = "WrongCardinality")
    /\ [][\A s \in Sessions : RejectStep(s) => NothingPersisted(s)]_vars

C6_Witness ==
    \E s, t \in Sessions :
        /\ outcome[s] = "WrongCardinality"
        /\ outcome[t] = "IntegrityError" /\ arg[t].kind \in Channels

\* C7: self_evals never holds two records of one member; a record, once
\* there, stays as it is until a reset commits; a self-assessment run is
\* accepted only when the member had no record, also when a second session
\* passed the existence check before the first insert.
C7_SelfOnce ==
    /\ [](\A u \in DOMAIN users : Cardinality({r \in self_evals : r[1] = u}) <= 1)
    /\ [][cycle' = cycle => self_evals \subseteq self_evals']_vars
    /\ [][\A s \in Sessions :
            (arg[s].kind = "self" /\ outcome'[s] = "Accepted" /\ outcome[s] # "Accepted")
            => ({r \in self_evals : r[1] = user[s].uid} = {})]_vars

C7_Witness ==
    \E s, t \in Sessions :
        /\ s # t
        /\ arg[s].kind = "self" /\ outcome[s] = "Accepted"
        /\ arg[t].kind = "self" /\ outcome[t] = "IntegrityError"
        /\ arg[t].score # arg[s].score
        /\ self_evals = {<<user[s].uid, arg[s].score>>}

\* C8: per channel, the vote counts of all candidates add up to K times the
\* number of distinct voters of the channel.
C8_SumIsKTimesVoters ==
    \A ch \in Channels :
        SumCounts(VoteCounts(Edges(ch))) = K * DistinctVoters(Edges(ch))

\* C9: the reset is one step for every other connection: the committed
\* tables stay as they were while the three DELETEs run, and the step that
\* ends the reset leaves all three empty.
C9_ResetAtomic ==
    /\ [][ResetInProgress' => db' = db]_vars
    /\ [][(ResetInProgress /\ ~ResetInProgress') => db' = <<{}, {}, {}>>]_vars

C9_Witness ==
    /\ \E s \in Sessions : pc[s] = "reset_commit"
    /\ self_evals # {}
    /\ peer_votes # {}

\* C10: the frame calculate_results returns is the merge of the self scores,
\* peer counts and officer counts of one committed state that existed
\* during the call.
C10_SingleState ==
    [][\A s \in Sessions :
        (pc[s] = "calc_officer" /\ pc'[s] = "idle") =>
            \E snap \in seen[s] :
                result'[s] = calculate_results(roster, snap.self_df, snap.votes_df,
                                               snap.officer_votes_df)]_vars

\* ------------------------------------------------ claims about the ranking
Computed(s) == pc[s] = "idle" /\ outcome[s] = "Computed"
Positions(df) == 1..Len(df)

\* C11: the returned frame has exactly one row per eligible member and its
\* ranks are 1..N, each used once.
C11_OneRowPerMember ==
    \A s \in Sessions : Computed(s) =>
        /\ Len(result[s]) = Len(roster)
        /\ \A u \in Members(roster) :
                Cardinality({i \in Positions(result[s]) : result[s][i].uid = u}) = 1
        /\ {result[s][i].rank : i \in Positions(result[s])} = 1..Len(roster)
        /\ \A i, j \in Positions(result[s]) :
                result[s][i].rank = result[s][j].rank => i = j

C11_Witness ==
    \E s \in Sessions : Computed(s) /\ Len(result[s]) = MaxRoster /\ peer_votes # {}

\* a is at least b in the lexicographic order of the four keys
KeyOf(row) == <<row.final_score, row.org_score, row.vote_count, row.self_score>>
LexGreaterOrEqual(a, b) ==
    \/ a = b
    \/ a[1] > b[1]
    \/ a[1] = b[1] /\ a[2] > b[2]
    \/ a[1] = b[1] /\ a[2] = b[2] /\ a[3] > b[3]
    \/ a[1] = b[1] /\ a[2] = b[2] /\ a[3] = b[3] /\ a[4] > b[4]

\* C12: a row ranked before another has a key (final_score, org_score,
\* vote_count, self_score) that is lexicographically greater or equal.
C12_SortedByKeys ==
    \A s \in Sessions : Computed(s) =>
        \A i, j \in Positions(result[s]) :
            result[s][i].rank < result[s][j].rank =>
                LexGreaterOrEqual(KeyOf(result[s][i]), KeyOf(result[s][j]))

\* Two rows with the same final_score are told apart by org_score.
C12_Witness ==
    \E s \in Sessions : Computed(s) /\
        \E i, j \in Positions(result[s]) :
            /\ i < j
            /\ result[s][i].final_score = result[s][j].final_score
            /\ result[s][i].org_score > result[s][j].org_score

\* C13: of two rows with the same four keys the one with the smaller uid is
\* ranked first.
C13_SmallerIdFirst ==
    \A s \in Sessions : Computed(s) =>
        \A i, j \in Positions(result[s]) :
            (i < j /\ KeyOf(result[s][i]) = KeyOf(result[s][j]))
                => result[s][i].uid < result[s][j].uid

InRange(score) == 0 <= score /\ score <= 100 * 100

OfficerCount == Cardinality(Members(roster) \cap OFFICER_IDS)

\* C16: org_score is officer_vote_count / OfficerCount * 100 with OfficerCount
\* the number of officers on the roster, so a member chosen by every officer
\* has org_score 100.
C16_OrgScoreByOfficerCount ==
    \A s \in Sessions : (Computed(s) /\ OfficerCount > 0) =>
        \A i \in Positions(result[s]) :
            /\ result[s][i].org_score =
                    RoundHalfEven(100 * 100 * result[s][i].officer_vote_count, OfficerCount)
            /\ result[s][i].officer_vote_count = OfficerCount
                    => result[s][i].org_score = 100 * 100

\* The stored self score of u, 0 without one, and the peer edges naming u.
SelfScoreOf(u) == IF \E r \in self_evals : r[1] = u
                  THEN (CHOOSE r \in self_evals : r[1] = u)[2]
                  ELSE 0
PeerVoteCount(u) == Cardinality({e \in peer_votes : e[2] = u})
MaxOf(a, b) == IF a > b THEN a ELSE b

\* Members A, B, C with self scores 80, 90, 70, each voting for the other
\* two, and no officer vote.
Scenario ==
    /\ Members(roster) = {1, 2, 3}
    /\ self_evals = {<<1, 80>>, <<2, 90>>, <<3, 70>>}
    /\ peer_votes = {e \in {1, 2, 3} \X {1, 2, 3} : e[1] # e[2]}
    /\ officer_votes = {}

\* C17: final_score = 0.3 * self_score + 0.3 * peer_score + 0.4 * org_score,
\* with self_score 0 for a member without a self score and peer_score =
\* vote_count / max(N - 1, 1) * 100; in the scenario the final scores are
\* A = 54, B = 57, C = 51 and the order is B, A, C.
C17_FinalScore ==
    \A s \in Sessions : Computed(s) =>
        /\ \A i \in Positions(result[s]) :
              LET row == result[s][i]
                  m == MaxOf(Len(roster) - 1, 1)
              IN  /\ row.self_score = SelfScoreOf(row.uid)
                  /\ row.vote_count = PeerVoteCount(row.uid)
                  /\ row.peer_score = RoundHalfEven(100 * 100 * row.vote_count, m)
                  /\ row.final_score =
                        RoundHalfEven(300 * row.self_score * m
                                        + 3 * 100 * 100 * row.vote_count
                                        + 4 * row.org_score * m,
                                      10 * m)
        /\ Scenario =>
              /\ [i \in Positions(result[s]) |-> result[s][i].uid] = <<2, 1, 3>>
              /\ [i \in Positions(result[s]) |-> result[s][i].final_score]
                    = <<5700, 5400, 5100>>

C17_Witness == Scenario /\ \E s \in Sessions : Computed(s)

\* ------------------------------------------------- reset versus submission
\* A ballot run has inserted rows that it has not yet committed or lost.
BallotTxnOpen == \E s \in Sessions : pc[s] \in {"peer_commit", "officer_commit", "failed"}
BallotCommitted == \E p \in DOMAIN accepted : accepted'[p] = accepted[p] + 1
ResetCompleted == cycle' = cycle + 1

\* C18: the transactions of a reset and of a ballot submission never
\* overlap: a ballot commits its K edges while no reset is under way, and
\* the step that completes a reset leaves both channels and the self scores
\* empty, so every (voter, channel) pair has 0 edges and no earlier edge
\* survives.
C18_ResetSerialized ==
    /\ [](~(ResetInProgress /\ BallotTxnOpen))
    /\ [][BallotCommitted =>
            /\ ~ResetInProgress /\ ~ResetInProgress'
            /\ \E ch \in Channels : Cardinality(Edges(ch)' \ Edges(ch)) = K]_vars
    /\ [][ResetCompleted =>
            /\ \A ch \in Channels : Edges(ch)' = {}
            /\ \A v \in Students : \A ch \in Channels :
                    VoterCount(Edges(ch)', v) \in {0, K}]_vars

\* A reset is under way over stored ballots while another run has passed
\* its checks and waits to insert.
C18_Witness ==
    /\ ResetInProgress
    /\ \E t \in Sessions : pc[t] \in {"peer_insert", "officer_insert"}
    /\ peer_votes \cup officer_votes # {}

\* C19: a roster on which no voter has K other members to choose from is
\* refused when the cycle starts, so no cycle runs to its results on it.
C19_CardinalityValidated ==
    (K > Len(roster) - 1) => \A s \in Sessions : ~Computed(s)

\* The sum of one column of a frame.
RECURSIVE SumColumn(_, _)
SumColumn(df, column) ==
    IF df = <<>> THEN 0 ELSE Head(df)[column] + SumColumn(Tail(df), column)

\* C20: every stored candidate is a member of the population the results
\* are computed for, so the vote_count column sums to the number of peer
\* edges and the officer_vote_count column to the number of officer edges.
C20_NoVoteDropped ==
    LET df == Merge(roster, self_evals, VoteCounts(peer_votes), VoteCounts(officer_votes))
    IN  /\ \A e \in peer_votes \cup officer_votes : e[2] \in Members(roster)
        /\ SumColumn(df, "vote_count") = Cardinality(peer_votes)
        /\ SumColumn(df, "officer_vote_count") = Cardinality(officer_votes)

C20_Witness == peer_votes # {} /\ officer_votes # {}
====
